---- MODULE Spec2Model ----
(***************************************************************************)
(* Periodic grid (bande -> batiment -> semaine -> suivi_quotidien) and the *)
(* running ledger bandes.alimentation_contour of the technicien-app        *)
(* backend (src-tauri).  The SQLite database is the state; every Tauri     *)
(* command / repository method is an operator from a database to a         *)
(* database and a result, and an action applies it.                        *)
(*                                                                         *)
(* f64 quantities are modelled by integers (the inputs are small whole     *)
(* numbers, for which f64 arithmetic is exact).  Strings handed to the     *)
(* commands are sequences of one-character strings so that parsing is      *)
(* computed, not assumed.                                                  *)
(***************************************************************************)
EXTENDS Integers, Sequences, FiniteSets, TLC

VARIABLES db, pre, last, ops, tasks, pool

vars == <<db, pre, last, ops, tasks, pool>>

(***************************************************************************)
(* Bounds of the exploration.                                              *)
(***************************************************************************)
\* number of commands issued in one behaviour
MaxOps == 4
\* number of upserts started against the pool in one behaviour
MaxTasks == 15

(***************************************************************************)
(* Program constants.                                                      *)
(***************************************************************************)
\* for numero_semaine in 1..=8
NbSemaines == 8
\* for day in 0..7
JoursParSemaine == 7
\* difference_sachets * 50.0
KgParSachet == 50
\* CHECK (numero_semaine BETWEEN 1 AND 9)
MaxNumeroSemaine == 9
\* connections of the pool
PoolSize == 15

(***************************************************************************)
(* Option<T> and Result<T, E>.                                             *)
(***************************************************************************)
None == <<>>
Some(x) == <<x>>
unwrap_or(o, default) == IF o = None THEN default ELSE o[1]

Ok(v) == [tag |-> "Ok", val |-> v]
Err(kind, detail) == [tag |-> "Err", kind |-> kind, detail |-> detail]
is_ok(r) == r.tag = "Ok"

(***************************************************************************)
(* str::parse for the integer literals of the input alphabet: an optional  *)
(* sign followed by at least one decimal digit.                            *)
(***************************************************************************)
Digit(c) ==
    CASE c = "0" -> 0 [] c = "1" -> 1 [] c = "2" -> 2 [] c = "3" -> 3
      [] c = "4" -> 4 [] c = "5" -> 5 [] c = "6" -> 6 [] c = "7" -> 7
      [] c = "8" -> 8 [] c = "9" -> 9 [] OTHER -> -1

IsDigits(s) == Len(s) > 0 /\ \A i \in 1..Len(s) : Digit(s[i]) >= 0

RECURSIVE DigitsValue(_)
DigitsValue(s) ==
    IF s = <<>> THEN 0
    ELSE 10 * DigitsValue(SubSeq(s, 1, Len(s) - 1)) + Digit(s[Len(s)])

parse(value) ==
    IF value # <<>> /\ value[1] = "-"
    THEN IF IsDigits(Tail(value)) THEN Some(0 - DigitsValue(Tail(value))) ELSE None
    ELSE IF value # <<>> /\ value[1] = "+"
    THEN IF IsDigits(Tail(value)) THEN Some(DigitsValue(Tail(value))) ELSE None
    ELSE IF IsDigits(value) THEN Some(DigitsValue(value)) ELSE None

is_empty(value) == value = <<>>

(***************************************************************************)
(* Schema (database/mod.rs): lookups and constraints.                      *)
(***************************************************************************)
\* a REAL column holding NULL, a number, or text that is not a number
SqlNull == <<"null", 0>>
SqlReal(x) == <<"real", x>>
SqlText == <<"text", 0>>

semaine_row(d, id) == CHOOSE s \in d.semaines : s.id = id
suivi_row(d, id) == CHOOSE s \in d.suivi_quotidien : s.id = id

\* the existence check dropped
semaine_exists_unchecked(d, semaine_id) == TRUE

semaine_exists(d, semaine_id) == \E s \in d.semaines : s.id = semaine_id

\* CHECK (age > 0)
CheckAge(age) == age > 0

\* the table without its UNIQUE(semaine_id, age)
UniqueSemaineAge_unchecked(d, id, semaine_id, age) == TRUE

\* UNIQUE(semaine_id, age), for the row `id` (0 for a row being inserted)
UniqueSemaineAge(d, id, semaine_id, age) ==
    ~ \E s \in d.suivi_quotidien :
        s.id # id /\ s.semaine_id = semaine_id /\ s.age = age

\* FOREIGN KEY (soins_id) REFERENCES soins(id)
FkSoins(d, soins_id) == soins_id = None \/ soins_id[1] \in d.soins

\* FOREIGN KEY (semaine_id) REFERENCES semaines(id)
FkSemaine(d, semaine_id) == semaine_exists(d, semaine_id)

SuiviConstraints(d, id, s) ==
    /\ CheckAge(s.age)
    /\ UniqueSemaineAge(d, id, s.semaine_id, s.age)
    /\ FkSoins(d, s.soins_id)
    /\ FkSemaine(d, s.semaine_id)

\* the UPDATE without its WHERE id = ?2
contour_sub_every_bande(d, bande_id, kg) ==
    [d EXCEPT !.bandes = [b \in DOMAIN @ |-> @[b] - kg]]

\* UPDATE bandes SET alimentation_contour = alimentation_contour - ?1 WHERE id = ?2
contour_sub(d, bande_id, kg) ==
    IF bande_id \in DOMAIN d.bandes
    THEN [d EXCEPT !.bandes[bande_id] = @ - kg]
    ELSE d

(***************************************************************************)
(* SuiviQuotidienRepository                                                *)
(***************************************************************************)
SuiviFields(id, s) ==
    [id |-> id, semaine_id |-> s.semaine_id, age |-> s.age,
     deces_par_jour |-> s.deces_par_jour,
     alimentation_par_jour |-> s.alimentation_par_jour,
     soins_id |-> s.soins_id, soins_quantite |-> s.soins_quantite,
     analyses |-> s.analyses, remarques |-> s.remarques]

SuiviQuotidienRepository_create(d, suivi) ==
    IF ~ semaine_exists(d, suivi.semaine_id)
    THEN [db |-> d, res |-> Err("validation_error", "semaine_id")]
    ELSE IF ~ SuiviConstraints(d, 0, suivi)
    THEN [db |-> d, res |-> Err("database", "constraint")]
    ELSE LET id == d.seq.suivi_quotidien + 1
             row == SuiviFields(id, suivi)
         IN  [db |-> [d EXCEPT !.suivi_quotidien = @ \cup {row},
                               !.seq.suivi_quotidien = id],
              res |-> Ok(row)]

SuiviQuotidienRepository_update(d, suivi) ==
    IF ~ semaine_exists(d, suivi.semaine_id)
    THEN [db |-> d, res |-> Err("validation_error", "semaine_id")]
    ELSE IF ~ \E s \in d.suivi_quotidien : s.id = suivi.id
    THEN [db |-> d, res |-> Err("not_found", suivi.id)]
    ELSE IF ~ SuiviConstraints(d, suivi.id, suivi)
    THEN [db |-> d, res |-> Err("database", "constraint")]
    ELSE LET row == SuiviFields(suivi.id, suivi)
         IN  [db |-> [d EXCEPT !.suivi_quotidien =
                                 (@ \ {suivi_row(d, suivi.id)}) \cup {row}],
              res |-> Ok(row)]

SuiviQuotidienRepository_delete(d, id) ==
    IF ~ \E s \in d.suivi_quotidien : s.id = id
    THEN [db |-> d, res |-> Err("not_found", id)]
    ELSE [db |-> [d EXCEPT !.suivi_quotidien = @ \ {suivi_row(d, id)}],
          res |-> Ok("unit")]

SuiviQuotidienRepository_get_by_id(d, id) ==
    IF \E s \in d.suivi_quotidien : s.id = id
    THEN Ok(suivi_row(d, id))
    ELSE Err("not_found", id)

\* ... WHERE sq.semaine_id = ?1 ORDER BY sq.age : the rows, and the first
\* row of that order holding a given age
SuiviQuotidienRepository_get_by_semaine(d, semaine_id) ==
    {s \in d.suivi_quotidien : s.semaine_id = semaine_id}

find_age(existing_suivis, age) ==
    LET m == {s \in existing_suivis : s.age = age}
    IN  IF m = {} THEN None
        ELSE Some(CHOOSE s \in m : \A t \in m : s.id <= t.id)

(***************************************************************************)
(* upsert_suivi_quotidien_field (commands/suivi_quotidien_commands.rs)     *)
(***************************************************************************)
\* SELECT bande_id FROM batiments b JOIN semaines s ON s.batiment_id = b.id
bande_of_semaine(d, semaine_id) ==
    LET rows == {s \in d.semaines :
                    s.id = semaine_id /\ s.batiment_id \in DOMAIN d.batiments}
    IN  IF rows = {} THEN None
        ELSE Some(d.batiments[(CHOOSE s \in rows : TRUE).batiment_id])

\* the lookup by natural key never finding the row
existing_id_never(d, semaine_id, age) == None

\* SELECT id FROM suivi_quotidien WHERE semaine_id = ?1 AND age = ?2
existing_id(d, semaine_id, age) ==
    LET m == {s \in d.suivi_quotidien : s.semaine_id = semaine_id /\ s.age = age}
    IN  IF m = {} THEN None
        ELSE Some((CHOOSE s \in m : \A t \in m : s.id <= t.id).id)

\* the catalog lookup dropped
soin_exists_unchecked(d, soin_id) == TRUE

\* SELECT COUNT(*) FROM soins WHERE id = ?1
soin_exists(d, soin_id) == soin_id \in d.soins

\* the delta accumulated blindly instead of against the stored value
difference_sachets_blind(new_value, old_value) == new_value

difference_sachets(new_value, old_value) == new_value - old_value

\* the match arm "soins_id" of both paths: the new Option, or the error
soins_id_arm(d, value) ==
    IF is_empty(value) THEN Ok(None)
    ELSE IF parse(value) # None
    THEN IF soin_exists(d, parse(value)[1])
         THEN Ok(Some(parse(value)[1]))
         ELSE Err("soin_inexistant", parse(value)[1])
    ELSE Ok(None)

\* the text stored as given, the empty string included
text_arm_verbatim(value) == Some(value)

\* "soins_quantite" | "analyses" | "remarques"
text_arm(value) == IF is_empty(value) THEN None ELSE Some(value)

upsert_existing(d, id, bande_id, field, value) ==
    LET current == suivi_row(d, id)
    IN
    CASE field = "deces_par_jour" ->
           SuiviQuotidienRepository_update(d,
               [current EXCEPT !.deces_par_jour = parse(value)])
      [] field = "alimentation_par_jour" ->
           LET old_value == unwrap_or(current.alimentation_par_jour, 0)
               new_value == unwrap_or(parse(value), 0)
               difference_kg == difference_sachets(new_value, old_value) * KgParSachet
               d1 == IF difference_kg # 0
                     THEN contour_sub(d, bande_id, difference_kg) ELSE d
           IN  SuiviQuotidienRepository_update(d1,
                   [current EXCEPT !.alimentation_par_jour =
                       IF is_empty(value) THEN None ELSE Some(new_value)])
      [] field = "soins_id" ->
           IF is_ok(soins_id_arm(d, value))
           THEN SuiviQuotidienRepository_update(d,
                    [current EXCEPT !.soins_id = soins_id_arm(d, value).val])
           ELSE [db |-> d, res |-> soins_id_arm(d, value)]
      [] field = "soins_quantite" ->
           SuiviQuotidienRepository_update(d,
               [current EXCEPT !.soins_quantite = text_arm(value)])
      [] field = "analyses" ->
           SuiviQuotidienRepository_update(d,
               [current EXCEPT !.analyses = text_arm(value)])
      [] field = "remarques" ->
           SuiviQuotidienRepository_update(d,
               [current EXCEPT !.remarques = text_arm(value)])
      [] OTHER -> [db |-> d, res |-> Err("champ_inconnu", field)]

upsert_new(d, semaine_id, age, bande_id, field, value) ==
    LET create_suivi ==
            [semaine_id |-> semaine_id, age |-> age,
             deces_par_jour |-> None, alimentation_par_jour |-> None,
             soins_id |-> None, soins_quantite |-> None,
             analyses |-> None, remarques |-> None]
    IN
    CASE field = "deces_par_jour" ->
           SuiviQuotidienRepository_create(d,
               [create_suivi EXCEPT !.deces_par_jour = parse(value)])
      [] field = "alimentation_par_jour" ->
           LET new_value == unwrap_or(parse(value), 0)
               d1 == IF new_value > 0
                     THEN contour_sub(d, bande_id, new_value * KgParSachet) ELSE d
           IN  SuiviQuotidienRepository_create(d1,
                   [create_suivi EXCEPT !.alimentation_par_jour =
                       IF is_empty(value) THEN None ELSE Some(new_value)])
      [] field = "soins_id" ->
           IF is_ok(soins_id_arm(d, value))
           THEN SuiviQuotidienRepository_create(d,
                    [create_suivi EXCEPT !.soins_id = soins_id_arm(d, value).val])
           ELSE [db |-> d, res |-> soins_id_arm(d, value)]
      [] field = "soins_quantite" ->
           SuiviQuotidienRepository_create(d,
               [create_suivi EXCEPT !.soins_quantite = text_arm(value)])
      [] field = "analyses" ->
           SuiviQuotidienRepository_create(d,
               [create_suivi EXCEPT !.analyses = text_arm(value)])
      [] field = "remarques" ->
           SuiviQuotidienRepository_create(d,
               [create_suivi EXCEPT !.remarques = text_arm(value)])
      [] OTHER -> [db |-> d, res |-> Err("champ_inconnu", field)]

upsert_suivi_quotidien_field(d, semaine_id, age, field, value) ==
    IF ~ semaine_exists(d, semaine_id)
    THEN [db |-> d, res |-> Err("semaine_inexistante", semaine_id)]
    ELSE IF bande_of_semaine(d, semaine_id) = None
    THEN [db |-> d, res |-> Err("database", "QueryReturnedNoRows")]
    ELSE LET bande_id == bande_of_semaine(d, semaine_id)[1]
         IN  IF existing_id(d, semaine_id, age) # None
             THEN upsert_existing(d, existing_id(d, semaine_id, age)[1],
                                  bande_id, field, value)
             ELSE upsert_new(d, semaine_id, age, bande_id, field, value)

(***************************************************************************)
(* SemaineRepository (repositories/semaine_repository.rs).  The file names *)
(* the parent key of a semaine `bande_id`; the schema, the models and the  *)
(* callers name it `batiment_id`.  It is modelled as the parent reference  *)
(* of the row, and get_by_bande is the get_by_batiment its callers use.    *)
(***************************************************************************)
\* SELECT COUNT(*) FROM bandes WHERE id = ?1, on the parent key
parent_exists(d, parent_id) == parent_id \in DOMAIN d.batiments

\* &semaine.poids.map(|p| p.to_string()).unwrap_or_default(), bound as text
\* to a REAL column: a number is converted, the empty string stays text
poids_to_sql(poids) == IF poids = None THEN SqlText ELSE SqlReal(poids[1])

\* poids: row.get(3)? as Option<f64>
poids_from_sql(v) ==
    CASE v[1] = "null" -> Ok(None)
      [] v[1] = "real" -> Ok(Some(v[2]))
      [] OTHER -> Err("database", "InvalidColumnType")

\* CHECK (numero_semaine BETWEEN 1 AND 9)
CheckNumeroSemaine(n) == n >= 1 /\ n <= MaxNumeroSemaine

\* UNIQUE(batiment_id, numero_semaine), for the row `id` (0 on insert)
UniqueBatimentNumero(d, id, batiment_id, numero_semaine) ==
    ~ \E s \in d.semaines :
        s.id # id /\ s.batiment_id = batiment_id
                  /\ s.numero_semaine = numero_semaine

\* FOREIGN KEY (batiment_id) REFERENCES batiments(id)
FkBatiment(d, batiment_id) == batiment_id \in DOMAIN d.batiments

SemaineConstraints(d, id, s) ==
    /\ CheckNumeroSemaine(s.numero_semaine)
    /\ UniqueBatimentNumero(d, id, s.batiment_id, s.numero_semaine)
    /\ FkBatiment(d, s.batiment_id)

\* the struct Semaine handed back to callers
Semaine(id, batiment_id, numero_semaine, poids) ==
    [id |-> Some(id), batiment_id |-> batiment_id,
     numero_semaine |-> numero_semaine, poids |-> poids]

SemaineRepository_create(d, semaine) ==
    IF ~ parent_exists(d, semaine.batiment_id)
    THEN [db |-> d, res |-> Err("validation_error", "bande_id")]
    ELSE IF ~ SemaineConstraints(d, 0, semaine)
    THEN [db |-> d, res |-> Err("database", "constraint")]
    ELSE LET id == d.seq.semaines + 1
         IN  [db |-> [d EXCEPT
                        !.semaines = @ \cup
                            {[id |-> id, batiment_id |-> semaine.batiment_id,
                              numero_semaine |-> semaine.numero_semaine,
                              poids |-> poids_to_sql(semaine.poids)]},
                        !.seq.semaines = id],
              res |-> Ok(Semaine(id, semaine.batiment_id,
                                 semaine.numero_semaine, semaine.poids))]

\* rows of a query, read one by one: the first unreadable row is the error
RowsReadable(rows) == \A s \in rows : is_ok(poids_from_sql(s.poids))

read_semaine(s) ==
    Semaine(s.id, s.batiment_id, s.numero_semaine, poids_from_sql(s.poids).val)

\* SELECT ... FROM semaines WHERE bande_id = ?1 ORDER BY numero_semaine
SemaineRepository_get_by_batiment(d, batiment_id) ==
    LET rows == {s \in d.semaines : s.batiment_id = batiment_id}
    IN  IF RowsReadable(rows)
        THEN Ok({read_semaine(s) : s \in rows})
        ELSE Err("database", "InvalidColumnType")

SemaineRepository_get_by_id(d, id) ==
    IF ~ semaine_exists(d, id) THEN Err("not_found", id)
    ELSE IF ~ RowsReadable({semaine_row(d, id)})
    THEN Err("database", "InvalidColumnType")
    ELSE Ok(read_semaine(semaine_row(d, id)))

\* ON DELETE CASCADE of suivi_quotidien.semaine_id
cascade_semaines(d, semaine_ids) ==
    [d EXCEPT !.semaines = {s \in @ : s.id \notin semaine_ids},
              !.suivi_quotidien = {s \in @ : s.semaine_id \notin semaine_ids}]

SemaineRepository_delete(d, id) ==
    IF ~ semaine_exists(d, id)
    THEN [db |-> d, res |-> Err("not_found", id)]
    ELSE [db |-> cascade_semaines(d, {id}), res |-> Ok("unit")]

\* UPDATE semaines SET bande_id = ?1, numero_semaine = ?2, poids = ?3
\* WHERE id = ?4: no row, no constraint to check, rows_affected == 0
SemaineRepository_update(d, semaine) ==
    IF ~ parent_exists(d, semaine.batiment_id)
    THEN [db |-> d, res |-> Err("validation_error", "bande_id")]
    ELSE IF ~ semaine_exists(d, semaine.id)
    THEN [db |-> d, res |-> Err("not_found", semaine.id)]
    ELSE IF ~ SemaineConstraints(d, semaine.id, semaine)
    THEN [db |-> d, res |-> Err("database", "constraint")]
    ELSE [db |-> [d EXCEPT
                    !.semaines = (@ \ {semaine_row(d, semaine.id)}) \cup
                        {[id |-> semaine.id,
                          batiment_id |-> semaine.batiment_id,
                          numero_semaine |-> semaine.numero_semaine,
                          poids |-> poids_to_sql(semaine.poids)]}],
          res |-> Ok(Semaine(semaine.id, semaine.batiment_id,
                             semaine.numero_semaine, semaine.poids))]

(***************************************************************************)
(* SemaineService::get_full_semaines_by_batiment                           *)
(***************************************************************************)
\* (numero_semaine - 1) * 7 + 1
start_age(numero_semaine) == (numero_semaine - 1) * JoursParSemaine + 1

virtual_suivi(semaine_id, age) ==
    [id |-> None, semaine_id |-> semaine_id, age |-> age,
     deces_par_jour |-> None, alimentation_par_jour |-> None,
     soins_id |-> None, soins_quantite |-> None,
     analyses |-> None, remarques |-> None]

\* a persisted row as SuiviQuotidienWithDetails
suivi_details(s) == [s EXCEPT !.id = Some(s.id)]

\* for day in 0..7 { ... suivis_quotidiens.push(suivi) }
suivis_quotidiens(d, semaine_id, numero_semaine) ==
    LET existing_suivis == SuiviQuotidienRepository_get_by_semaine(d, semaine_id)
    IN  [day \in 1..JoursParSemaine |->
            LET age == start_age(numero_semaine) + (day - 1)
            IN  IF find_age(existing_suivis, age) # None
                THEN suivi_details(find_age(existing_suivis, age)[1])
                ELSE virtual_suivi(semaine_id, age)]

\* the body of `for numero_semaine in 1..=8`, from numero_semaine on
RECURSIVE full_semaines_loop(_, _, _, _, _)
full_semaines_loop(d, batiment_id, semaines_map, numero_semaine, result) ==
    IF numero_semaine > NbSemaines THEN [db |-> d, res |-> Ok(result)]
    ELSE
    LET existing == {s \in semaines_map : s.numero_semaine = numero_semaine}
        created == SemaineRepository_create(d,
                       [batiment_id |-> batiment_id,
                        numero_semaine |-> numero_semaine, poids |-> None])
    IN  IF existing = {} /\ ~ is_ok(created.res)
        THEN [db |-> created.db, res |-> created.res]
        ELSE
        LET semaine == IF existing # {} THEN CHOOSE s \in existing : TRUE
                       ELSE created.res.val
            d1 == IF existing # {} THEN d ELSE created.db
            semaine_with_details ==
                [id |-> semaine.id, batiment_id |-> semaine.batiment_id,
                 numero_semaine |-> semaine.numero_semaine,
                 poids |-> semaine.poids,
                 suivi_quotidien |->
                     suivis_quotidiens(d1, semaine.id[1], numero_semaine)]
        IN  full_semaines_loop(d1, batiment_id, semaines_map \cup {semaine},
                               numero_semaine + 1,
                               Append(result, semaine_with_details))

get_full_semaines_by_batiment(d, batiment_id) ==
    LET existing_semaines == SemaineRepository_get_by_batiment(d, batiment_id)
    IN  IF ~ is_ok(existing_semaines)
        THEN [db |-> d, res |-> existing_semaines]
        ELSE full_semaines_loop(d, batiment_id, existing_semaines.val, 1, <<>>)

\* SemaineService::update_semaine_poids: get_by_id, then update with the
\* stored batiment_id and numero_semaine
update_semaine_poids(d, semaine_id, poids) ==
    LET existing_semaine == SemaineRepository_get_by_id(d, semaine_id)
    IN  IF ~ is_ok(existing_semaine)
        THEN [db |-> d, res |-> existing_semaine]
        ELSE SemaineRepository_update(d,
                 [id |-> semaine_id,
                  batiment_id |-> existing_semaine.val.batiment_id,
                  numero_semaine |-> existing_semaine.val.numero_semaine,
                  poids |-> poids])

(***************************************************************************)
(* BatimentRepository                                                      *)
(***************************************************************************)
\* the maladies catalog (not written by the commands modelled)
MaladieIds == {1}

\* INSERT OR IGNORE INTO batiment_maladies after both existence checks
BatimentRepository_add_maladie_to_batiment(d, batiment_id, maladie_id) ==
    IF batiment_id \notin DOMAIN d.batiments
    THEN [db |-> d, res |-> Err("not_found", batiment_id)]
    ELSE IF maladie_id \notin MaladieIds
    THEN [db |-> d, res |-> Err("not_found", maladie_id)]
    ELSE [db |-> [d EXCEPT !.batiment_maladies =
                               @ \cup {<<batiment_id, maladie_id>>}],
          res |-> Ok("unit")]

\* 1. DELETE FROM suivi_quotidien WHERE semaine_id IN (the unit's semaines)
delete_suivis_of_batiment(d, id) ==
    LET semaine_ids == {s.id : s \in {t \in d.semaines : t.batiment_id = id}}
    IN  [d EXCEPT !.suivi_quotidien = {s \in @ : s.semaine_id \notin semaine_ids}]

\* 2. DELETE FROM semaines WHERE batiment_id = ?1
delete_semaines_of_batiment(d, id) ==
    [d EXCEPT !.semaines = {s \in @ : s.batiment_id # id}]

\* the links left in place
delete_maladie_links_skipped(d, id) == d

\* 3. DELETE FROM batiment_maladies WHERE batiment_id = ?1
delete_maladie_links(d, id) ==
    [d EXCEPT !.batiment_maladies = {l \in @ : l[1] # id}]

\* 4. DELETE FROM batiments WHERE id = ?1
delete_batiment_row(d, id) ==
    [d EXCEPT !.batiments = [b \in (DOMAIN @) \ {id} |-> d.batiments[b]]]

\* the statements of delete in order; fail_at = k makes the k-th of the four
\* DELETE statements return an error (0: none does).  The result is the
\* working state of the open transaction and the value the body returns.
delete_statements(d, id, fail_at) ==
    LET issued1 == \E t \in d.semaines : t.batiment_id = id
        d1 == delete_suivis_of_batiment(d, id)
        d2 == delete_semaines_of_batiment(d1, id)
        d3 == delete_maladie_links(d2, id)
        d4 == delete_batiment_row(d3, id)
    IN  IF fail_at = 1 /\ issued1
        THEN [db |-> d, res |-> Err("database", 1)]
        ELSE IF fail_at = 2 THEN [db |-> d1, res |-> Err("database", 2)]
        ELSE IF fail_at = 3 THEN [db |-> d2, res |-> Err("database", 3)]
        ELSE IF fail_at = 4 THEN [db |-> d3, res |-> Err("database", 4)]
        ELSE IF id \notin DOMAIN d3.batiments
        THEN [db |-> d3, res |-> Err("not_found", id)]
        ELSE [db |-> d4, res |-> Ok("unit")]

\* the statements committed one by one, whatever the body returns
BatimentRepository_delete_autocommit(d, id, fail_at) ==
    delete_statements(d, id, fail_at)

\* conn.transaction(): committed when the body returns Ok, rolled back when
\* it returns early
BatimentRepository_delete(d, id, fail_at) ==
    LET body == delete_statements(d, id, fail_at)
    IN  IF is_ok(body.res) THEN body ELSE [db |-> d, res |-> body.res]

(***************************************************************************)
(* AlimentationRepository                                                  *)
(***************************************************************************)
\* UPDATE bandes SET alimentation_contour = alimentation_contour + ?1 WHERE id = ?2
contour_add(d, bande_id, kg) ==
    IF bande_id \in DOMAIN d.bandes
    THEN [d EXCEPT !.bandes[bande_id] = @ + kg]
    ELSE d

history_row(d, id) == CHOOSE h \in d.alimentation_history : h.id = id

AlimentationRepository_create(d, alimentation) ==
    IF alimentation.bande_id \notin DOMAIN d.bandes
    THEN [db |-> d, res |-> Err("validation_error", "bande_id")]
    ELSE LET id == d.seq.alimentation_history + 1
             row == [id |-> id, bande_id |-> alimentation.bande_id,
                     quantite |-> alimentation.quantite]
             d1 == [d EXCEPT !.alimentation_history = @ \cup {row},
                             !.seq.alimentation_history = id]
         IN  [db |-> contour_add(d1, alimentation.bande_id, alimentation.quantite),
              res |-> Ok(row)]

\* a re-pointing adjusted as a change of quantity on the new bande alone
AlimentationRepository_update_same_bande(d, id, alimentation, fail_at) ==
    IF alimentation.bande_id \notin DOMAIN d.bandes
    THEN [db |-> d, res |-> Err("validation_error", "bande_id")]
    ELSE IF ~ \E h \in d.alimentation_history : h.id = id
    THEN [db |-> d, res |-> Err("not_found", id)]
    ELSE LET d1 == [d EXCEPT !.alimentation_history =
                        (@ \ {history_row(d, id)}) \cup
                        {[id |-> id, bande_id |-> alimentation.bande_id,
                          quantite |-> alimentation.quantite]}]
         IN  [db |-> contour_add(d1, alimentation.bande_id,
                        alimentation.quantite - history_row(d, id).quantite),
              res |-> Ok("unit")]

\* the statements run on the connection in autocommit, one after the other;
\* fail_at = k makes the k-th writing statement return an error (0: none)
AlimentationRepository_update(d, id, alimentation, fail_at) ==
    IF alimentation.bande_id \notin DOMAIN d.bandes
    THEN [db |-> d, res |-> Err("validation_error", "bande_id")]
    ELSE IF ~ \E h \in d.alimentation_history : h.id = id
    THEN [db |-> d, res |-> Err("not_found", id)]
    ELSE LET old_bande_id == history_row(d, id).bande_id
             old_quantite == history_row(d, id).quantite
             d1 == [d EXCEPT !.alimentation_history =
                        (@ \ {history_row(d, id)}) \cup
                        {[id |-> id, bande_id |-> alimentation.bande_id,
                          quantite |-> alimentation.quantite]}]
             d2 == contour_sub(d1, old_bande_id, old_quantite)
         IN  IF fail_at = 1 THEN [db |-> d, res |-> Err("database", 1)]
             ELSE IF fail_at = 2 THEN [db |-> d1, res |-> Err("database", 2)]
             ELSE IF old_bande_id # alimentation.bande_id
             THEN IF fail_at = 3
                  THEN [db |-> d2, res |-> Err("database", 3)]
                  ELSE [db |-> contour_add(d2, alimentation.bande_id,
                                           alimentation.quantite),
                        res |-> Ok("unit")]
             ELSE [db |-> contour_add(d1, alimentation.bande_id,
                                      alimentation.quantite - old_quantite),
                   res |-> Ok("unit")]

\* the record deleted and the ledger left as it was
AlimentationRepository_delete_record_only(d, id) ==
    IF ~ \E h \in d.alimentation_history : h.id = id
    THEN [db |-> d, res |-> Err("not_found", id)]
    ELSE [db |-> [d EXCEPT !.alimentation_history = @ \ {history_row(d, id)}],
          res |-> Ok("unit")]

AlimentationRepository_delete(d, id) ==
    IF ~ \E h \in d.alimentation_history : h.id = id
    THEN [db |-> d, res |-> Err("not_found", id)]
    ELSE LET bande_id == history_row(d, id).bande_id
             quantite == history_row(d, id).quantite
             d1 == [d EXCEPT !.alimentation_history = @ \ {history_row(d, id)}]
         IN  [db |-> contour_sub(d1, bande_id, quantite), res |-> Ok("unit")]

\* the history rows deleted, the ledger left as it was
AlimentationRepository_delete_by_bande_keep_contour(d, bande_id) ==
    [db |-> [d EXCEPT !.alimentation_history =
                          {h \in @ : h.bande_id # bande_id}],
     res |-> Ok(Cardinality({h \in d.alimentation_history :
                                h.bande_id = bande_id}))]

\* DELETE FROM alimentation_history WHERE bande_id = ?1, then
\* UPDATE bandes SET alimentation_contour = 0.0 WHERE id = ?1
AlimentationRepository_delete_by_bande(d, bande_id) ==
    LET rows == {h \in d.alimentation_history : h.bande_id = bande_id}
        d1 == [d EXCEPT !.alimentation_history = @ \ rows]
    IN  [db |-> IF bande_id \in DOMAIN d1.bandes
                THEN [d1 EXCEPT !.bandes[bande_id] = 0]
                ELSE d1,
         res |-> Ok(Cardinality(rows))]

(***************************************************************************)
(* BandeRepository                                                         *)
(***************************************************************************)
\* the bande row deleted by a connection without PRAGMA foreign_keys
BandeRepository_delete_row_only(d, id) ==
    IF id \notin DOMAIN d.bandes
    THEN [db |-> d, res |-> Err("not_found", id)]
    ELSE [db |-> [d EXCEPT !.bandes = [b \in DOMAIN @ \ {id} |-> @[b]]],
          res |-> Ok("unit")]

\* DELETE FROM bandes WHERE id = ?1, with the ON DELETE CASCADE of
\* batiments.bande_id, alimentation_history.bande_id, semaines.batiment_id,
\* batiment_maladies.batiment_id and suivi_quotidien.semaine_id
BandeRepository_delete(d, id) ==
    IF id \notin DOMAIN d.bandes
    THEN [db |-> d, res |-> Err("not_found", id)]
    ELSE LET units == {b \in DOMAIN d.batiments : d.batiments[b] = id}
             semaine_ids == {s.id : s \in {w \in d.semaines :
                                              w.batiment_id \in units}}
             d1 == cascade_semaines(d, semaine_ids)
         IN  [db |-> [d1 EXCEPT
                        !.bandes = [b \in DOMAIN @ \ {id} |-> @[b]],
                        !.batiments = [b \in DOMAIN @ \ units |-> @[b]],
                        !.batiment_maladies = {l \in @ : l[1] \notin units},
                        !.alimentation_history = {h \in @ : h.bande_id # id}],
              res |-> Ok("unit")]

(***************************************************************************)
(* AuthService (services/auth_service.rs) behind the commands of           *)
(* commands/auth_commands.rs.  A password hash is the password under       *)
(* bcrypt; the timestamps of a user are left out.                          *)
(***************************************************************************)
\* AuthService::new: active_tokens is a new, empty HashMap (token -> user_id)
AuthService_new == [active_tokens |-> <<>>]

\* tokens.insert(token.clone(), user.id), token being Uuid::new_v4()
generate_token(service, user, token) ==
    [service EXCEPT !.active_tokens =
        [t \in DOMAIN @ \cup {token} |-> IF t = token THEN user.id ELSE @[t]]]

\* register_user: the service is built by the command and dropped when the
\* command returns
register_user(d, user_data, token) ==
    LET service == AuthService_new
        id == d.seq.users + 1
        user == [id |-> id, username |-> user_data.username,
                 email |-> user_data.email,
                 password_hash |-> <<"bcrypt", user_data.password>>]
        issued == generate_token(service, user, token)
    IN  IF user_data.registration_code # "FERME2024"
        THEN [db |-> d, res |-> Err("validation_error", "registration_code")]
        ELSE IF \E u \in d.users : u.username = user_data.username
                                      \/ u.email = user_data.email
        THEN [db |-> d, res |-> Err("validation_error", "user")]
        ELSE IF Len(user_data.username) < 3 \/ Len(user_data.username) > 50
        THEN [db |-> d, res |-> Err("validation_error", "username")]
        ELSE IF ~ \E i \in 1..Len(user_data.email) : user_data.email[i] = "@"
        THEN [db |-> d, res |-> Err("validation_error", "email")]
        ELSE IF Len(user_data.password) < 6 \/ Len(user_data.password) > 255
        THEN [db |-> d, res |-> Err("validation_error", "password")]
        ELSE [db |-> [d EXCEPT !.users = @ \cup {user}, !.seq.users = id],
              res |-> Ok([user |-> [id |-> user.id, username |-> user.username,
                                    email |-> user.email],
                          token |-> CHOOSE t \in DOMAIN issued.active_tokens :
                                        issued.active_tokens[t] = user.id])]

\* login_user: authenticate_user, then generate_token on the command's service
login_user(d, login_data, token) ==
    LET service == AuthService_new
        found == {u \in d.users :
                    /\ u.username = login_data.username
                    /\ u.password_hash = <<"bcrypt", login_data.password>>}
    IN  IF found = {}
        THEN [db |-> d, res |-> Err("validation_error", "credentials")]
        ELSE LET user == CHOOSE u \in found : TRUE
                 issued == generate_token(service, user, token)
             IN  [db |-> d,
                  res |-> Ok([user |-> [id |-> user.id,
                                        username |-> user.username,
                                        email |-> user.email],
                              token |-> CHOOSE t \in DOMAIN issued.active_tokens :
                                            issued.active_tokens[t] = user.id])]

\* logout_user: tokens.remove(token) on the command's service
logout_user(d, token) ==
    LET service == AuthService_new
        tokens == [t \in DOMAIN service.active_tokens \ {token} |->
                      service.active_tokens[t]]
    IN  [db |-> d, res |-> Ok("unit")]

\* verify_token: tokens.get(token) on the command's service, then
\* get_user_by_id
verify_token(d, token) ==
    LET service == AuthService_new
    IN  IF token \in DOMAIN service.active_tokens
           /\ \E u \in d.users : u.id = service.active_tokens[token]
        THEN LET user == CHOOSE u \in d.users :
                             u.id = service.active_tokens[token]
             IN  [db |-> d,
                  res |-> Ok(Some([id |-> user.id, username |-> user.username,
                                   email |-> user.email]))]
        ELSE [db |-> d, res |-> Ok(None)]

(***************************************************************************)
(* State: the database, the database before the last command, and the last *)
(* command with its arguments and result.                                  *)
(***************************************************************************)
\* two bandes with one batiment each, one soin in the catalog, no semaine,
\* no suivi, no alimentation history, no user: the database after the
\* master data was entered
InitialDb ==
    [bandes |-> [b \in {1, 2} |-> 0],
     batiments |-> [b \in {1, 2} |-> b],
     soins |-> {2},
     semaines |-> {},
     suivi_quotidien |-> {},
     alimentation_history |-> {},
     batiment_maladies |-> {},
     users |-> {},
     seq |-> [semaines |-> 0, suivi_quotidien |-> 0, alimentation_history |-> 0,
              users |-> 0]]

\* the upsert tasks that will run concurrently, none started
TaskIds == {1, 2}

IdleTask ==
    [pc |-> "idle", semaine_id |-> 0, age |-> 0, value |-> <<>>,
     bande_id |-> 0, existing |-> None, current |-> None,
     held |-> 0, acquired |-> 0, res |-> None]

\* Pool::builder().max_size(15): every connection idle, no operation started
InitialPool ==
    [idle |-> PoolSize, asking |-> 0, on_conn |-> 0, asking_nested |-> 0,
     nested |-> 0, on_conn_again |-> 0, asking_nested_again |-> 0,
     nested_again |-> 0, returned |-> 0, unavailable |-> 0]

Init ==
    /\ db = InitialDb
    /\ pre = InitialDb
    /\ last = [op |-> "init", args |-> <<>>, res |-> Ok("unit")]
    /\ ops = 0
    /\ tasks = [t \in TaskIds |-> IdleTask]
    /\ pool = InitialPool

\* one command: the handler applied to the database
Command(op, args, r) ==
    /\ db' = r.db
    /\ pre' = db
    /\ last' = [op |-> op, args |-> args, res |-> r.res]
    /\ ops' = ops + 1
    /\ UNCHANGED <<tasks, pool>>

GetFullSemaines(batiment_id) ==
    Command("get_full_semaines_by_batiment", [batiment_id |-> batiment_id],
            get_full_semaines_by_batiment(db, batiment_id))

UpsertField(semaine_id, age, field, value) ==
    Command("upsert_suivi_quotidien_field",
            [semaine_id |-> semaine_id, age |-> age,
             field |-> field, value |-> value],
            upsert_suivi_quotidien_field(db, semaine_id, age, field, value))

CreateSuiviQuotidien(suivi) ==
    Command("create_suivi_quotidien", suivi,
            SuiviQuotidienRepository_create(db, suivi))

UpdateSuiviQuotidien(suivi) ==
    Command("update_suivi_quotidien", suivi,
            SuiviQuotidienRepository_update(db, suivi))

DeleteSuiviQuotidien(id) ==
    Command("delete_suivi_quotidien", [id |-> id],
            SuiviQuotidienRepository_delete(db, id))

CreateSemaine(semaine) ==
    Command("create_semaine", semaine, SemaineRepository_create(db, semaine))

DeleteSemaine(id) ==
    Command("delete_semaine", [id |-> id], SemaineRepository_delete(db, id))

UpdateSemaine(semaine) ==
    Command("update_semaine", semaine, SemaineRepository_update(db, semaine))

UpdateSemainePoids(semaine_id, poids) ==
    Command("update_semaine_poids", [semaine_id |-> semaine_id, poids |-> poids],
            update_semaine_poids(db, semaine_id, poids))

DeleteBande(id) ==
    Command("delete_bande", [id |-> id], BandeRepository_delete(db, id))

\* a caller of AlimentationRepository::delete_by_bande on its connection
DeleteByBande(bande_id) ==
    Command("delete_by_bande", [bande_id |-> bande_id],
            AlimentationRepository_delete_by_bande(db, bande_id))

DeleteBatiment(id, fail_at) ==
    Command("delete_batiment", [id |-> id],
            BatimentRepository_delete(db, id, fail_at))

AddMaladieToBatiment(batiment_id, maladie_id) ==
    Command("add_maladie_to_batiment",
            [batiment_id |-> batiment_id, maladie_id |-> maladie_id],
            BatimentRepository_add_maladie_to_batiment(db, batiment_id, maladie_id))

CreateAlimentationHistory(alimentation) ==
    Command("create_alimentation_history", alimentation,
            AlimentationRepository_create(db, alimentation))

UpdateAlimentationHistory(id, alimentation, fail_at) ==
    Command("update_alimentation_history",
            [id |-> id, bande_id |-> alimentation.bande_id,
             quantite |-> alimentation.quantite],
            AlimentationRepository_update(db, id, alimentation, fail_at))

DeleteAlimentationHistory(id) ==
    Command("delete_alimentation_history", [id |-> id],
            AlimentationRepository_delete(db, id))

(***************************************************************************)
(* upsert_suivi_quotidien_field on "alimentation_par_jour" as a task: the   *)
(* statements of the command, each in autocommit, run one at a time so     *)
(* that the statements of two tasks interleave.                            *)
(***************************************************************************)
NoTaskStarted == \A t \in TaskIds : tasks[t].pc = "idle"

TaskArgs(t) ==
    [semaine_id |-> tasks[t].semaine_id, age |-> tasks[t].age,
     field |-> "alimentation_par_jour", value |-> tasks[t].value]

\* a step of task t that changes the task alone
TaskStep(t, task) ==
    /\ tasks' = [tasks EXCEPT ![t] = task]
    /\ UNCHANGED <<db, pre, last, ops, pool>>

\* the command returns: its connection goes back to the pool
TaskReturn(t, d, r) ==
    /\ tasks' = [tasks EXCEPT ![t] = [@ EXCEPT !.pc = "done", !.held = 0,
                                              !.res = Some(r)]]
    /\ db' = d
    /\ last' = [op |-> "upsert_suivi_quotidien_field", args |-> TaskArgs(t),
                res |-> r]
    /\ UNCHANGED <<pre, ops, pool>>

\* the command is invoked and takes its connection: db.get_connection()
TaskStart(t, semaine_id, age, value) ==
    /\ tasks[t].pc = "idle"
    /\ tasks' = [tasks EXCEPT ![t] =
                    [IdleTask EXCEPT !.pc = "check", !.semaine_id = semaine_id,
                                     !.age = age, !.value = value,
                                     !.held = 1, !.acquired = 1]]
    /\ pre' = IF NoTaskStarted THEN db ELSE pre
    /\ UNCHANGED <<db, last, ops, pool>>

\* the semaine check and the bande_id query
TaskCheckSemaine(t) ==
    /\ tasks[t].pc = "check"
    /\ IF ~ semaine_exists(db, tasks[t].semaine_id)
       THEN TaskReturn(t, db, Err("semaine_inexistante", tasks[t].semaine_id))
       ELSE IF bande_of_semaine(db, tasks[t].semaine_id) = None
       THEN TaskReturn(t, db, Err("database", "QueryReturnedNoRows"))
       ELSE TaskStep(t, [tasks[t] EXCEPT
                !.pc = "lookup",
                !.bande_id = bande_of_semaine(db, tasks[t].semaine_id)[1]])

\* the existing_id lookup
TaskLookup(t) ==
    /\ tasks[t].pc = "lookup"
    /\ LET found == existing_id(db, tasks[t].semaine_id, tasks[t].age)
       IN  TaskStep(t, [tasks[t] EXCEPT
               !.existing = found,
               !.pc = IF found # None THEN "call_get_by_id" ELSE "ledger_new"])

\* a repository method takes a connection of its own, self.db.get_connection(),
\* while the command still holds conn
TaskRepositoryConnection(t) ==
    /\ tasks[t].pc \in {"call_get_by_id", "call_update", "call_create"}
    /\ TaskStep(t, [tasks[t] EXCEPT
           !.held = @ + 1, !.acquired = @ + 1,
           !.pc = CASE tasks[t].pc = "call_get_by_id" -> "get_by_id"
                    [] tasks[t].pc = "call_update" -> "update"
                    [] OTHER -> "create"])

\* repository.get_by_id(id)
TaskGetById(t) ==
    /\ tasks[t].pc = "get_by_id"
    /\ LET r == SuiviQuotidienRepository_get_by_id(db, tasks[t].existing[1])
       IN  IF is_ok(r)
           THEN TaskStep(t, [tasks[t] EXCEPT !.current = Some(r.val),
                                             !.held = 1,
                                             !.pc = "ledger_existing"])
           ELSE TaskReturn(t, db, r)

\* the ledger statement of the existing-row arm
TaskLedgerExisting(t) ==
    /\ tasks[t].pc = "ledger_existing"
    /\ LET old_value == unwrap_or(tasks[t].current[1].alimentation_par_jour, 0)
           new_value == unwrap_or(parse(tasks[t].value), 0)
           difference_kg == difference_sachets(new_value, old_value) * KgParSachet
       IN  db' = IF difference_kg # 0
                 THEN contour_sub(db, tasks[t].bande_id, difference_kg) ELSE db
    /\ tasks' = [tasks EXCEPT ![t] = [@ EXCEPT !.pc = "call_update"]]
    /\ UNCHANGED <<pre, last, ops, pool>>

\* repository.update(update_suivi)
TaskUpdate(t) ==
    /\ tasks[t].pc = "update"
    /\ LET new_value == unwrap_or(parse(tasks[t].value), 0)
           r == SuiviQuotidienRepository_update(db,
                    [tasks[t].current[1] EXCEPT !.alimentation_par_jour =
                        IF is_empty(tasks[t].value) THEN None ELSE Some(new_value)])
       IN  TaskReturn(t, r.db, r.res)

\* the ledger statement of the new-row arm
TaskLedgerNew(t) ==
    /\ tasks[t].pc = "ledger_new"
    /\ LET new_value == unwrap_or(parse(tasks[t].value), 0)
       IN  db' = IF new_value > 0
                 THEN contour_sub(db, tasks[t].bande_id, new_value * KgParSachet)
                 ELSE db
    /\ tasks' = [tasks EXCEPT ![t] = [@ EXCEPT !.pc = "call_create"]]
    /\ UNCHANGED <<pre, last, ops, pool>>

\* repository.create(create_suivi)
TaskCreate(t) ==
    /\ tasks[t].pc = "create"
    /\ LET new_value == unwrap_or(parse(tasks[t].value), 0)
           r == SuiviQuotidienRepository_create(db,
                    [semaine_id |-> tasks[t].semaine_id, age |-> tasks[t].age,
                     deces_par_jour |-> None,
                     alimentation_par_jour |->
                        IF is_empty(tasks[t].value) THEN None ELSE Some(new_value),
                     soins_id |-> None, soins_quantite |-> None,
                     analyses |-> None, remarques |-> None])
       IN  TaskReturn(t, r.db, r.res)

(***************************************************************************)
(* The connection pool under concurrent upserts.  An upsert takes conn     *)
(* with db.get_connection(), then calls repository methods that each take   *)
(* a connection of their own while conn is held: get_by_id then update on   *)
(* the existing-row path, create on the new-row path.  pool counts the     *)
(* upserts at each of these points.  Pool::get() waits for an idle          *)
(* connection and gives up with an error when none comes in time.          *)
(***************************************************************************)
InFlight ==
    pool.asking + pool.on_conn + pool.asking_nested + pool.nested
    + pool.on_conn_again + pool.asking_nested_again + pool.nested_again

Started == InFlight + pool.returned + pool.unavailable

PoolStep(p) ==
    /\ pool' = p
    /\ UNCHANGED <<db, pre, last, ops, tasks>>

\* an upsert is invoked and calls db.get_connection()
PoolInvoke ==
    /\ Started < MaxTasks
    /\ PoolStep([pool EXCEPT !.asking = @ + 1])

\* self.pool.get() returns a connection to the command
PoolGet ==
    /\ pool.asking > 0 /\ pool.idle > 0
    /\ PoolStep([pool EXCEPT !.asking = @ - 1, !.on_conn = @ + 1, !.idle = @ - 1])

\* self.pool.get() times out: the command returns the error
PoolGetTimeout ==
    /\ pool.asking > 0 /\ pool.idle = 0
    /\ PoolStep([pool EXCEPT !.asking = @ - 1, !.unavailable = @ + 1])

\* the command returns before any repository call (semaine missing, unknown
\* soin): conn goes back to the pool
PoolEarlyReturn ==
    /\ pool.on_conn > 0
    /\ PoolStep([pool EXCEPT !.on_conn = @ - 1, !.returned = @ + 1, !.idle = @ + 1])

\* repository.get_by_id / repository.create calls self.db.get_connection()
PoolRepositoryCall ==
    /\ pool.on_conn > 0
    /\ PoolStep([pool EXCEPT !.on_conn = @ - 1, !.asking_nested = @ + 1])

PoolNestedGet ==
    /\ pool.asking_nested > 0 /\ pool.idle > 0
    /\ PoolStep([pool EXCEPT !.asking_nested = @ - 1, !.nested = @ + 1,
                             !.idle = @ - 1])

\* the repository's get() times out: the command returns the error and
\* drops conn
PoolNestedTimeout ==
    /\ pool.asking_nested > 0 /\ pool.idle = 0
    /\ PoolStep([pool EXCEPT !.asking_nested = @ - 1, !.unavailable = @ + 1,
                             !.idle = @ + 1])

\* repository.create returns (or get_by_id fails): the command returns
PoolCreateReturn ==
    /\ pool.nested > 0
    /\ PoolStep([pool EXCEPT !.nested = @ - 1, !.returned = @ + 1, !.idle = @ + 2])

\* repository.get_by_id returns the current row: the command goes on
PoolGetByIdReturn ==
    /\ pool.nested > 0
    /\ PoolStep([pool EXCEPT !.nested = @ - 1, !.on_conn_again = @ + 1,
                             !.idle = @ + 1])

\* repository.update calls self.db.get_connection()
PoolUpdateCall ==
    /\ pool.on_conn_again > 0
    /\ PoolStep([pool EXCEPT !.on_conn_again = @ - 1,
                             !.asking_nested_again = @ + 1])

PoolUpdateGet ==
    /\ pool.asking_nested_again > 0 /\ pool.idle > 0
    /\ PoolStep([pool EXCEPT !.asking_nested_again = @ - 1,
                             !.nested_again = @ + 1, !.idle = @ - 1])

PoolUpdateTimeout ==
    /\ pool.asking_nested_again > 0 /\ pool.idle = 0
    /\ PoolStep([pool EXCEPT !.asking_nested_again = @ - 1,
                             !.unavailable = @ + 1, !.idle = @ + 1])

\* repository.update returns: the command returns
PoolUpdateReturn ==
    /\ pool.nested_again > 0
    /\ PoolStep([pool EXCEPT !.nested_again = @ - 1, !.returned = @ + 1,
                             !.idle = @ + 2])

\* the number of commands issued stays below n
Within(n) == ops < n

(***************************************************************************)
(* Inputs.                                                                 *)
(***************************************************************************)
FieldNames ==
    {"deces_par_jour", "alimentation_par_jour", "soins_id",
     "soins_quantite", "analyses", "remarques"}

\* "", "2", "5", "-2", "a"
RawValues == {<<>>, <<"2">>, <<"5">>, <<"-", "2">>, <<"a">>}

\* semaine 1 exists once a grid was materialised, semaine 99 never does;
\* age 0 is refused by the schema
UpsertInputs ==
    ({1} \X {1} \X {"alimentation_par_jour"} \X RawValues)
    \cup ({1} \X {1} \X (FieldNames \ {"alimentation_par_jour"})
              \X {<<>>, <<"2">>, <<"a">>})
    \cup ({1} \X {1} \X {"soins_id"} \X {<<"5">>})
    \cup ({1} \X {1} \X {"inconnu"} \X {<<"2">>})
    \cup ({1} \X {0, 2} \X {"alimentation_par_jour"} \X {<<"2">>, <<"-", "2">>})
    \cup ({9, 99} \X {1} \X {"alimentation_par_jour", "soins_id"} \X {<<"2">>})

Next ==
    \/ \E b \in {1, 2} : Within(MaxOps) /\ GetFullSemaines(b)
    \/ \E i \in UpsertInputs :
          Within(MaxOps) /\ UpsertField(i[1], i[2], i[3], i[4])

Spec == Init /\ [][Next]_vars

(***************************************************************************)
(* The store under every write operation: the grid of batiment 1, field    *)
(* upserts, direct suivi_quotidien commands, cascading deletes and the     *)
(* alimentation history.                                                   *)
(***************************************************************************)
StoreUpsertInputs ==
    ({1} \X {1} \X {"alimentation_par_jour"} \X {<<"2">>, <<"-", "2">>})
    \cup ({1} \X {1, 2} \X {"soins_id"} \X {<<"2">>, <<"5">>})
    \cup ({1} \X {1} \X {"remarques"} \X {<<"a">>})

\* CreateSuiviQuotidien / UpdateSuiviQuotidien with the text fields unset
SuiviInput(id, semaine_id, age, alimentation_par_jour, soins_id) ==
    [id |-> id, semaine_id |-> semaine_id, age |-> age,
     deces_par_jour |-> None, alimentation_par_jour |-> alimentation_par_jour,
     soins_id |-> soins_id, soins_quantite |-> None,
     analyses |-> None, remarques |-> None]

CreateSuiviInputs ==
    {SuiviInput(0, 1, 1, Some(2), None), SuiviInput(0, 1, 2, None, Some(2)),
     SuiviInput(0, 1, 1, None, Some(5)), SuiviInput(0, 1, 0, Some(2), None),
     SuiviInput(0, 99, 1, None, None)}

UpdateSuiviInputs ==
    {SuiviInput(1, 1, 1, Some(5), None), SuiviInput(1, 1, 2, None, None),
     SuiviInput(2, 1, 1, None, None), SuiviInput(1, 1, 1, None, Some(5)),
     SuiviInput(9, 1, 1, None, None), SuiviInput(1, 99, 1, None, None)}

AlimentationInputs ==
    {[bande_id |-> 1, quantite |-> 100], [bande_id |-> 2, quantite |-> 0 - 50],
     [bande_id |-> 3, quantite |-> 100]}

NextStore ==
    \/ Within(MaxOps) /\ GetFullSemaines(1)
    \/ \E i \in StoreUpsertInputs :
          Within(MaxOps) /\ UpsertField(i[1], i[2], i[3], i[4])
    \/ \E c \in CreateSuiviInputs : Within(MaxOps) /\ CreateSuiviQuotidien(c)
    \/ \E u \in UpdateSuiviInputs : Within(MaxOps) /\ UpdateSuiviQuotidien(u)
    \/ \E id \in {1, 9} : Within(MaxOps) /\ DeleteSuiviQuotidien(id)
    \/ \E id \in {1, 99} : Within(MaxOps) /\ DeleteSemaine(id)
    \/ \E id \in {1, 3} : Within(MaxOps) /\ DeleteBatiment(id, 0)
    \/ \E a \in AlimentationInputs :
          Within(MaxOps) /\ CreateAlimentationHistory(a)
    \/ \E id \in {1, 9}, a \in AlimentationInputs :
          Within(MaxOps) /\ UpdateAlimentationHistory(id, a, 0)
    \/ \E id \in {1, 9} : Within(MaxOps) /\ DeleteAlimentationHistory(id)

SpecStore == Init /\ [][NextStore]_vars

(***************************************************************************)
(* The grid: materialisation of the semaines of existing and missing       *)
(* batiments, over semaines and suivis written by the other commands.      *)
(***************************************************************************)
CreateSemaineInputs ==
    {[batiment_id |-> 1, numero_semaine |-> 1, poids |-> Some(3)],
     [batiment_id |-> 1, numero_semaine |-> 2, poids |-> None],
     [batiment_id |-> 1, numero_semaine |-> 9, poids |-> Some(3)],
     [batiment_id |-> 3, numero_semaine |-> 1, poids |-> None]}

\* ages 1 and 7 are addresses of semaine 1, age 8 is not
GridSuiviInputs ==
    {SuiviInput(0, 1, 1, Some(2), None), SuiviInput(0, 1, 7, None, Some(2)),
     SuiviInput(0, 1, 8, Some(2), None)}

NextGrid ==
    \/ \E b \in {1, 2, 3} : Within(MaxOps) /\ GetFullSemaines(b)
    \/ \E c \in CreateSemaineInputs : Within(MaxOps) /\ CreateSemaine(c)
    \/ \E c \in GridSuiviInputs : Within(MaxOps) /\ CreateSuiviQuotidien(c)
    \/ \E v \in {<<"2">>, <<>>} :
          Within(MaxOps) /\ UpsertField(1, 2, "alimentation_par_jour", v)
    \/ \E id \in {1, 2} : Within(MaxOps) /\ DeleteSemaine(id)

SpecGrid == Init /\ [][NextGrid]_vars

(***************************************************************************)
(* Cascading deletes: two batiments with their grids, consumption and      *)
(* maladie links, deleted with or without a failing statement.             *)
(***************************************************************************)
CascadeUpsertInputs ==
    {<<1, 1, <<"2">>>>, <<1, 2, <<"5">>>>, <<9, 1, <<"2">>>>}

NextCascade ==
    \/ \E b \in {1, 2} : Within(MaxOps) /\ GetFullSemaines(b)
    \/ \E i \in CascadeUpsertInputs :
          Within(MaxOps) /\ UpsertField(i[1], i[2], "alimentation_par_jour", i[3])
    \/ \E b \in {1, 2, 3}, m \in {1, 2} :
          Within(MaxOps) /\ AddMaladieToBatiment(b, m)
    \/ \E id \in {1, 3}, fail_at \in 0..4 :
          Within(MaxOps) /\ DeleteBatiment(id, fail_at)
    \/ \E id \in {1, 99} : Within(MaxOps) /\ DeleteSemaine(id)

SpecCascade == Init /\ [][NextCascade]_vars

(***************************************************************************)
(* The alimentation history of two bandes: records created, changed,       *)
(* re-pointed and deleted, with or without a failing statement.            *)
(***************************************************************************)
LedgerInputs ==
    {[bande_id |-> 1, quantite |-> 100], [bande_id |-> 2, quantite |-> 100],
     [bande_id |-> 2, quantite |-> 0 - 50], [bande_id |-> 1, quantite |-> 30],
     [bande_id |-> 3, quantite |-> 100]}

NextLedger ==
    \/ \E a \in LedgerInputs : Within(MaxOps) /\ CreateAlimentationHistory(a)
    \/ \E id \in {1, 2, 9}, a \in LedgerInputs, fail_at \in 0..3 :
          Within(MaxOps) /\ UpdateAlimentationHistory(id, a, fail_at)
    \/ \E id \in {1, 2, 9} : Within(MaxOps) /\ DeleteAlimentationHistory(id)

SpecLedger == Init /\ [][NextLedger]_vars

(***************************************************************************)
(* Two concurrent upserts of alimentation_par_jour, after the grid of      *)
(* batiment 1 was materialised and possibly written by earlier commands.   *)
(***************************************************************************)
\* the address and value of each task: task 1 writes (semaine 1, age 1)
TaskInputs ==
    [t \in TaskIds |->
        IF t = 1 THEN {<<1, 1, <<"5">>>>, <<1, 1, <<"-", "2">>>>}
        ELSE {<<1, 1, <<"2">>>>, <<1, 1, <<"5">>>>, <<1, 2, <<"2">>>>,
              <<1, 2, <<>>>>, <<99, 1, <<"2">>>>}]

NextConcurrent ==
    \/ Within(MaxOps) /\ NoTaskStarted /\ GetFullSemaines(1)
    \/ \E a \in {1, 2} : Within(MaxOps) /\ NoTaskStarted
                            /\ UpsertField(1, a, "alimentation_par_jour", <<"2">>)
    \/ \E t \in TaskIds : \E i \in TaskInputs[t] : TaskStart(t, i[1], i[2], i[3])
    \/ \E t \in TaskIds : TaskCheckSemaine(t)
    \/ \E t \in TaskIds : TaskLookup(t)
    \/ \E t \in TaskIds : TaskRepositoryConnection(t)
    \/ \E t \in TaskIds : TaskGetById(t)
    \/ \E t \in TaskIds : TaskLedgerExisting(t)
    \/ \E t \in TaskIds : TaskUpdate(t)
    \/ \E t \in TaskIds : TaskLedgerNew(t)
    \/ \E t \in TaskIds : TaskCreate(t)

SpecConcurrent == Init /\ [][NextConcurrent]_vars

(***************************************************************************)
(* Any number of upserts, up to MaxTasks, running against the pool.        *)
(***************************************************************************)
NextPoolProgress ==
    \/ PoolGet
    \/ PoolGetTimeout
    \/ PoolEarlyReturn
    \/ PoolRepositoryCall
    \/ PoolNestedGet
    \/ PoolNestedTimeout
    \/ PoolCreateReturn
    \/ PoolGetByIdReturn
    \/ PoolUpdateCall
    \/ PoolUpdateGet
    \/ PoolUpdateTimeout
    \/ PoolUpdateReturn

NextPool == PoolInvoke \/ NextPoolProgress

SpecPool == Init /\ [][NextPool]_vars

\* every thread runs, and a get() that finds no connection times out
SpecPoolFair == SpecPool /\ WF_vars(NextPoolProgress)

(***************************************************************************)
(* The semaines of the batiments under the commands that write them:      *)
(* create_semaine, update_semaine, update_semaine_poids and the grid.      *)
(***************************************************************************)
NextPeriod ==
    \/ \E b \in {1, 2} : Within(MaxOps) /\ GetFullSemaines(b)
    \/ \E c \in CreateSemaineInputs : Within(MaxOps) /\ CreateSemaine(c)
    \/ \E id \in {1, 99}, b \in {1, 3}, n \in {2, 9, 10},
            w \in {None, Some(3)} :
          Within(MaxOps) /\ UpdateSemaine([id |-> id, batiment_id |-> b,
                                           numero_semaine |-> n, poids |-> w])
    \/ \E id \in {1, 99}, w \in {None, Some(3)} :
          Within(MaxOps) /\ UpdateSemainePoids(id, w)

SpecPeriod == Init /\ [][NextPeriod]_vars

(***************************************************************************)
(* The inserts of semaines and suivis, by the create commands and by the   *)
(* upsert, at addresses inside and outside the semaine's seven ages.       *)
(***************************************************************************)
NextDay ==
    \/ Within(MaxOps) /\ GetFullSemaines(1)
    \/ \E c \in CreateSemaineInputs : Within(MaxOps) /\ CreateSemaine(c)
    \/ \E c \in CreateSuiviInputs \cup GridSuiviInputs :
          Within(MaxOps) /\ CreateSuiviQuotidien(c)
    \/ \E i \in {<<1, 1>>, <<1, 8>>, <<2, 8>>} :
          Within(MaxOps)
          /\ UpsertField(i[1], i[2], "alimentation_par_jour", <<"2">>)

SpecDay == Init /\ [][NextDay]_vars

(***************************************************************************)
(* The bandes: two bandes with grids, consumption, maladie links and       *)
(* alimentation history, deleted whole or emptied of their history.        *)
(***************************************************************************)
NextBande ==
    \/ \E b \in {1, 2} : Within(MaxOps) /\ GetFullSemaines(b)
    \/ Within(MaxOps) /\ UpsertField(1, 1, "alimentation_par_jour", <<"5">>)
    \/ \E b \in {1, 2} : Within(MaxOps) /\ AddMaladieToBatiment(b, 1)
    \/ \E b \in {1, 2} :
          Within(MaxOps)
          /\ CreateAlimentationHistory([bande_id |-> b, quantite |-> 100])
    \/ \E id \in {1, 3} : Within(MaxOps) /\ DeleteBande(id)
    \/ \E id \in {1, 2, 3} : Within(MaxOps) /\ DeleteByBande(id)

SpecBande == Init /\ [][NextBande]_vars

(***************************************************************************)
(* Sessions: users registering, logging in, verifying the tokens they were *)
(* given and logging out, each command on its own AuthService.             *)
(***************************************************************************)
NextAuth ==
    \/ \E n \in {"alice", "bob", "al"}, c \in {"FERME2024", "FERME"},
            w \in {"secret1", "abc"}, token \in {"t1", "t2"} :
          Within(MaxOps)
          /\ LET user_data == [username |-> n, email |-> <<n, "@", "x">>,
                               password |-> w, registration_code |-> c]
             IN  Command("register_user", user_data,
                         register_user(db, user_data, token))
    \/ \E n \in {"alice", "bob"}, w \in {"secret1", "secret2"},
            token \in {"t1", "t2"} :
          Within(MaxOps)
          /\ LET login_data == [username |-> n, password |-> w]
             IN  Command("login_user", login_data,
                         login_user(db, login_data, token))
    \/ \E token \in {"t1", "t2"} :
          Within(MaxOps)
          /\ Command("logout_user", [token |-> token], logout_user(db, token))
    \/ \E token \in {"t1", "t2"} :
          Within(MaxOps)
          /\ Command("verify_token", [token |-> token], verify_token(db, token))

SpecAuth == Init /\ [][NextAuth]_vars

(***************************************************************************)
(* Properties.                                                             *)
(***************************************************************************)
IsUpsert == last.op = "upsert_suivi_quotidien_field"

\* C6: an upsert whose semaine_id names no semaine fails with the error
\* "La semaine avec l'ID {} n'existe pas" and mutates nothing: the whole
\* database (every suivi row, every alimentation_contour) is as before.
UpsertPreconditionNoMutation ==
    (IsUpsert /\ ~ \E s \in pre.semaines : s.id = last.args.semaine_id)
        => /\ last.res = Err("semaine_inexistante", last.args.semaine_id)
           /\ db = pre

\* an upsert of the consumption field to a missing semaine, issued while
\* semaines and suivi rows exist
UpsertPreconditionWitness ==
    /\ IsUpsert
    /\ ~ \E s \in pre.semaines : s.id = last.args.semaine_id
    /\ last.args.field = "alimentation_par_jour"
    /\ pre.semaines # {}
    /\ pre.suivi_quotidien # {}

IsConsumptionUpsert == IsUpsert /\ last.args.field = "alimentation_par_jour"

\* the consumption stored at an address, 0 when the row is absent or unset
StoredConsumption(d, semaine_id, age) ==
    LET m == {s \in d.suivi_quotidien : s.semaine_id = semaine_id /\ s.age = age}
    IN  IF m = {} THEN 0
        ELSE unwrap_or((CHOOSE s \in m : TRUE).alimentation_par_jour, 0)

\* the bande owning a semaine of database d
OwningBande(d, semaine_id) ==
    d.batiments[(CHOOSE s \in d.semaines : s.id = semaine_id).batiment_id]

\* C1: ledger conservation.  Every consumption upsert that writes (a first
\* write to an absent address or a rewrite, whatever the value) moves the
\* owning bande's alimentation_contour by -50 * (new_i - old_i), old_i and
\* new_i being the consumption stored at the address just before and just
\* after the call; over a sequence the contour is initial - 50 * SUM.
LedgerConservation ==
    (IsConsumptionUpsert /\ is_ok(last.res))
        => LET b == OwningBande(pre, last.args.semaine_id)
               old_i == StoredConsumption(pre, last.args.semaine_id, last.args.age)
               new_i == StoredConsumption(db, last.args.semaine_id, last.args.age)
           IN  db.bandes[b] = pre.bandes[b] - KgParSachet * (new_i - old_i)

\* C3: upsert idempotence.  For every semaine, age the schema admits,
\* field and raw value, issuing the call a second time right after the
\* first leaves the database as the first left it (same rows, same ids, same
\* alimentation_contour) and returns the same result, the same stored Day.
UpsertIdempotent ==
    (IsUpsert /\ last.args.age > 0)
        => LET again == upsert_suivi_quotidien_field(db,
                            last.args.semaine_id, last.args.age,
                            last.args.field, last.args.value)
           IN  again.db = db /\ again.res = last.res

\* a rewrite of a stored consumption 2 by "5": the ledger moved by -150
UpsertIdempotentWitness ==
    /\ IsConsumptionUpsert /\ is_ok(last.res)
    /\ last.args.value = <<"5">>
    /\ StoredConsumption(pre, last.args.semaine_id, last.args.age) = 2
    /\ StoredConsumption(db, last.args.semaine_id, last.args.age) = 5
    /\ db.bandes[1] = pre.bandes[1] - 150

\* C5: upsert atomicity.  An upsert that returns an error leaves the
\* database as it was: the alimentation_contour is not changed without the
\* matching suivi_quotidien write.
UpsertAtomic ==
    (IsUpsert /\ ~ is_ok(last.res)) => db = pre

RECURSIVE SumQuantite(_)
SumQuantite(rows) ==
    IF rows = {} THEN 0
    ELSE LET r == CHOOSE r \in rows : TRUE
         IN  r.quantite + SumQuantite(rows \ {r})

RECURSIVE SumConsumption(_)
SumConsumption(rows) ==
    IF rows = {} THEN 0
    ELSE LET r == CHOOSE r \in rows : TRUE
         IN  unwrap_or(r.alimentation_par_jour, 0) + SumConsumption(rows \ {r})

\* the suivi rows under the batiments of a bande
SuivisOfBande(d, bande_id) ==
    {s \in d.suivi_quotidien :
        \E w \in d.semaines :
            /\ w.id = s.semaine_id
            /\ w.batiment_id \in DOMAIN d.batiments
            /\ d.batiments[w.batiment_id] = bande_id}

\* C2: ledger invariant.  In every reachable state each bande's
\* alimentation_contour equals the sum of its alimentation_history
\* quantities minus 50 times the sum of the consumption stored in the
\* suivi_quotidien rows under its batiments.
LedgerInvariant ==
    \A b \in DOMAIN db.bandes :
        db.bandes[b] =
            SumQuantite({h \in db.alimentation_history : h.bande_id = b})
            - KgParSachet * SumConsumption(SuivisOfBande(db, b))

RowsAt(d, semaine_id, age) ==
    {s \in d.suivi_quotidien : s.semaine_id = semaine_id /\ s.age = age}

\* the upserts the command accepts: an existing semaine, an age the schema
\* admits, a known field, and for soins_id no dangling catalog id
UpsertAccepted ==
    /\ IsUpsert
    /\ \E s \in pre.semaines : s.id = last.args.semaine_id
    /\ last.args.age > 0
    /\ last.args.field \in FieldNames
    /\ (last.args.field = "soins_id" /\ parse(last.args.value) # None)
           => parse(last.args.value)[1] \in pre.soins

\* C4: upsert by natural key.  No two suivi_quotidien rows share
\* (semaine_id, age); an accepted upsert to an address without a row
\* inserts exactly one row, there, under a fresh id; an accepted upsert to
\* an address with a row keeps the set of ids and the id at the address,
\* and both leave every other row as it was.
UpsertByNaturalKey ==
    /\ \A s, t \in db.suivi_quotidien :
          (s.semaine_id = t.semaine_id /\ s.age = t.age) => s = t
    /\ UpsertAccepted =>
          LET before == RowsAt(pre, last.args.semaine_id, last.args.age)
              after == RowsAt(db, last.args.semaine_id, last.args.age)
          IN  /\ is_ok(last.res)
              /\ Cardinality(after) = 1
              /\ db.suivi_quotidien \ after = pre.suivi_quotidien \ before
              /\ IF before = {}
                 THEN \A r \in after : \A s \in pre.suivi_quotidien : r.id # s.id
                 ELSE {r.id : r \in after} = {r.id : r \in before}

\* an upsert updating in place one of two stored rows
UpsertByNaturalKeyWitness ==
    /\ UpsertAccepted
    /\ RowsAt(pre, last.args.semaine_id, last.args.age) # {}
    /\ Cardinality(pre.suivi_quotidien) = 2
    /\ db # pre

\* C7: dangling catalog reference.  An upsert of soins_id whose value
\* parses to an id absent from soins returns the error naming that id and
\* leaves the database unchanged, whether or not the address has a row; and
\* no stored suivi_quotidien references an id absent from soins.
DanglingSoinRejected ==
    /\ (/\ IsUpsert /\ last.args.field = "soins_id"
        /\ \E s \in pre.semaines : s.id = last.args.semaine_id
        /\ parse(last.args.value) # None
        /\ parse(last.args.value)[1] \notin pre.soins)
          => /\ last.res = Err("soin_inexistant", parse(last.args.value)[1])
             /\ db = pre
    /\ \A s \in db.suivi_quotidien :
          s.soins_id = None \/ s.soins_id[1] \in db.soins

\* soins_id "5" refused on a row that references the existing soin 2
DanglingSoinWitness ==
    /\ IsUpsert /\ last.args.field = "soins_id" /\ last.args.value = <<"5">>
    /\ \E s \in RowsAt(pre, last.args.semaine_id, last.args.age) :
          s.soins_id = Some(2)
    /\ ~ is_ok(last.res)

IsGetFull == last.op = "get_full_semaines_by_batiment"

\* the result is 8 semaines numbered 1..8, each with 7 slots of ages
\* (numero_semaine - 1) * 7 + 1 .. numero_semaine * 7
FullGrid(res) ==
    /\ is_ok(res)
    /\ Len(res.val) = NbSemaines
    /\ \A n \in 1..NbSemaines :
          /\ res.val[n].numero_semaine = n
          /\ Len(res.val[n].suivi_quotidien) = JoursParSemaine
          /\ \A k \in 1..JoursParSemaine :
                res.val[n].suivi_quotidien[k].age = (n - 1) * JoursParSemaine + k

\* C8: grid completeness.  For an existing batiment, whatever semaines and
\* suivis are persisted, get_full_semaines_by_batiment returns the full
\* grid: 8 semaines in order, 7 slots each, ages 1..56 without gap.
GridComplete ==
    (IsGetFull /\ last.args.batiment_id \in DOMAIN pre.batiments)
        => FullGrid(last.res)

\* C9: idempotent materialisation.  A second get_full_semaines_by_batiment
\* right after a successful one succeeds too, inserts no semaine and returns
\* the same 8 semaine ids.
GridIdempotent ==
    (IsGetFull /\ is_ok(last.res))
        => LET again == get_full_semaines_by_batiment(db, last.args.batiment_id)
           IN  /\ is_ok(again.res)
               /\ again.db.semaines = db.semaines
               /\ \A n \in 1..NbSemaines : again.res.val[n].id = last.res.val[n].id

\* C10: lazy day materialisation.  get_full_semaines_by_batiment writes no
\* suivi_quotidien row; for an existing batiment without persisted suivis
\* it returns 56 virtual suivis (no id, every field null); and a persisted
\* suivi whose age is an address of its semaine is returned in its slot.
LazyDays ==
    IsGetFull =>
        /\ db.suivi_quotidien = pre.suivi_quotidien
        /\ (/\ last.args.batiment_id \in DOMAIN pre.batiments
            /\ SuivisOfBande(pre, pre.batiments[last.args.batiment_id]) = {})
              => /\ FullGrid(last.res)
                 /\ \A n \in 1..NbSemaines, k \in 1..JoursParSemaine :
                       last.res.val[n].suivi_quotidien[k] =
                           virtual_suivi(last.res.val[n].id[1],
                                         (n - 1) * JoursParSemaine + k)
        /\ is_ok(last.res) =>
              \A n \in 1..NbSemaines, k \in 1..JoursParSemaine :
                 \A s \in pre.suivi_quotidien :
                    (s.semaine_id = last.res.val[n].id[1]
                         /\ s.age = (n - 1) * JoursParSemaine + k)
                      => last.res.val[n].suivi_quotidien[k] = suivi_details(s)

IsDeleteBatiment == last.op = "delete_batiment"

IsDeleteSemaine == last.op = "delete_semaine"

SemaineIdsOf(d, batiment_id) ==
    {s.id : s \in {t \in d.semaines : t.batiment_id = batiment_id}}

\* the batiment, its semaines, their suivis and its maladie links are gone
\* and every other row is as before
UnitRemoved(id) ==
    /\ DOMAIN db.batiments = (DOMAIN pre.batiments) \ {id}
    /\ \A b \in DOMAIN db.batiments : db.batiments[b] = pre.batiments[b]
    /\ db.semaines = {s \in pre.semaines : s.batiment_id # id}
    /\ db.suivi_quotidien =
          {s \in pre.suivi_quotidien : s.semaine_id \notin SemaineIdsOf(pre, id)}
    /\ db.batiment_maladies = {l \in pre.batiment_maladies : l[1] # id}

\* C11: cascade delete completeness.  After a successful
\* BatimentRepository::delete the batiment row, its semaines, their
\* suivi_quotidien rows and its batiment_maladies rows are gone, and the
\* rows of the other batiments are unchanged.
CascadeDeleteComplete ==
    (IsDeleteBatiment /\ is_ok(last.res)) => UnitRemoved(last.args.id)

\* a batiment with a stored suivi and a maladie link deleted while another
\* batiment remains
CascadeDeleteCompleteWitness ==
    /\ IsDeleteBatiment /\ is_ok(last.res)
    /\ SuivisOfBande(pre, pre.batiments[last.args.id]) # {}
    /\ \E l \in pre.batiment_maladies : l[1] = last.args.id
    /\ DOMAIN db.batiments # {}

\* C12: cascade delete atomicity.  A BatimentRepository::delete that
\* returns an error, a failing statement or NotFound, has removed nothing;
\* after any delete_batiment either the batiment is still there and the
\* database is as before, or the batiment and all its descendants are gone.
CascadeDeleteAtomic ==
    IsDeleteBatiment =>
        /\ ~ is_ok(last.res) => db = pre
        /\ \/ db = pre
           \/ UnitRemoved(last.args.id)

\* the last statement fails after the suivis and semaines were deleted
CascadeDeleteAtomicWitness ==
    /\ IsDeleteBatiment
    /\ last.res = Err("database", 4)
    /\ SuivisOfBande(pre, pre.batiments[last.args.id]) # {}

\* C13: delete repairs the ledger.  A successful delete of a batiment or of
\* a semaine raises the alimentation_contour of the owning bande by 50 times
\* the consumption stored in the suivi_quotidien rows it removed.
DeleteRepairsLedger ==
    ((IsDeleteBatiment \/ IsDeleteSemaine) /\ is_ok(last.res)) =>
        \A b \in DOMAIN pre.bandes :
            db.bandes[b] = pre.bandes[b] + KgParSachet *
                SumConsumption(SuivisOfBande(pre, b) \ db.suivi_quotidien)

IsCreateAlimentation == last.op = "create_alimentation_history"

IsUpdateAlimentation == last.op = "update_alimentation_history"

IsDeleteAlimentation == last.op = "delete_alimentation_history"

\* the ledger of d with kg added to bande_id and nothing else changed
ContourPlus(d, bande_id, kg) ==
    [b \in DOMAIN d.bandes |-> IF b = bande_id THEN d.bandes[b] + kg
                                               ELSE d.bandes[b]]

\* C14: adjustment create/delete.  create with quantite v on an existing
\* bande adds v to that bande's alimentation_contour and to no other;
\* delete of a record (bande, v) subtracts v; deleting the record a create
\* just made restores the ledger; create on a missing bande and delete of a
\* missing record return an error and change nothing.
AdjustmentCreateDelete ==
    /\ IsCreateAlimentation =>
          IF last.args.bande_id \in DOMAIN pre.bandes
          THEN /\ is_ok(last.res)
               /\ db.bandes = ContourPlus(pre, last.args.bande_id, last.args.quantite)
               /\ AlimentationRepository_delete(db, last.res.val.id).db.bandes
                     = pre.bandes
          ELSE ~ is_ok(last.res) /\ db = pre
    /\ IsDeleteAlimentation =>
          IF \E h \in pre.alimentation_history : h.id = last.args.id
          THEN LET h == history_row(pre, last.args.id)
               IN  /\ is_ok(last.res)
                   /\ db.bandes = ContourPlus(pre, h.bande_id, 0 - h.quantite)
          ELSE ~ is_ok(last.res) /\ db = pre

\* a record deleted from a ledger that another record also feeds
AdjustmentCreateDeleteWitness ==
    /\ IsDeleteAlimentation /\ is_ok(last.res)
    /\ db.alimentation_history # {}
    /\ db.bandes # pre.bandes

\* C15: adjustment update.  A successful update of a record (A, v0) to
\* (B, v1) changes A's alimentation_contour by v1 - v0 when A = B, and
\* otherwise A's by -v0 and B's by +v1; no other bande changes (so with
\* v1 = v0 the sum over A and B is unchanged).
AdjustmentUpdate ==
    (IsUpdateAlimentation /\ is_ok(last.res)) =>
        LET h == history_row(pre, last.args.id)
            moved == [pre EXCEPT !.bandes = ContourPlus(pre, h.bande_id, 0 - h.quantite)]
        IN  /\ db.bandes = ContourPlus(moved, last.args.bande_id, last.args.quantite)
            /\ (h.quantite = last.args.quantite) =>
                  db.bandes[h.bande_id] + db.bandes[last.args.bande_id]
                      = pre.bandes[h.bande_id] + pre.bandes[last.args.bande_id]

\* a record re-pointed to the other bande with its quantite unchanged
AdjustmentUpdateWitness ==
    /\ IsUpdateAlimentation /\ is_ok(last.res)
    /\ history_row(pre, last.args.id).bande_id # last.args.bande_id
    /\ history_row(pre, last.args.id).quantite = last.args.quantite
    /\ db.bandes # pre.bandes

\* C16: re-pointing atomicity.  An update_alimentation_history that returns
\* an error leaves the record and both ledgers as they were.
AdjustmentUpdateAtomic ==
    (IsUpdateAlimentation /\ ~ is_ok(last.res)) => db = pre

BothDone == \A t \in TaskIds : tasks[t].pc = "done"

SameAddress ==
    /\ tasks[1].semaine_id = tasks[2].semaine_id
    /\ tasks[1].age = tasks[2].age

\* the value the upsert of task t stores
TaskValue(t) ==
    IF is_empty(tasks[t].value) THEN None
    ELSE Some(unwrap_or(parse(tasks[t].value), 0))

\* the delta new - old of task t against the database before both tasks
TaskDelta(t) ==
    unwrap_or(TaskValue(t), 0)
        - StoredConsumption(pre, tasks[t].semaine_id, tasks[t].age)

\* C17: concurrent upserts to the same address.  When two concurrent
\* upserts of alimentation_par_jour to one (semaine_id, age) have both
\* returned, both succeeded, one row exists at the address, it holds the
\* value of the upsert that returned last, and the bande's
\* alimentation_contour is its value before both minus 50 times (the value
\* stored now minus the value stored before both).
ConcurrentSameAddress ==
    (BothDone /\ SameAddress /\ semaine_exists(pre, tasks[1].semaine_id)) =>
        LET b == OwningBande(pre, tasks[1].semaine_id)
            rows == RowsAt(db, tasks[1].semaine_id, tasks[1].age)
        IN  /\ \A t \in TaskIds : is_ok(tasks[t].res[1])
            /\ Cardinality(rows) = 1
            /\ \A r \in rows :
                  r.alimentation_par_jour =
                      (IF is_empty(last.args.value) THEN None
                       ELSE Some(unwrap_or(parse(last.args.value), 0)))
            /\ db.bandes[b] = pre.bandes[b] - KgParSachet *
                  (StoredConsumption(db, tasks[1].semaine_id, tasks[1].age)
                   - StoredConsumption(pre, tasks[1].semaine_id, tasks[1].age))

\* C18: concurrent upserts to different addresses.  When two concurrent
\* upserts of alimentation_par_jour to different addresses under one bande
\* have both returned, both succeeded, each row holds the value written to
\* it, and alimentation_contour is its value before both minus 50 times the
\* sum of the two deltas.
ConcurrentDifferentAddresses ==
    (/\ BothDone /\ ~ SameAddress
     /\ \A t \in TaskIds : semaine_exists(pre, tasks[t].semaine_id)) =>
        LET b == OwningBande(pre, tasks[1].semaine_id)
        IN  /\ \A t \in TaskIds :
                  /\ is_ok(tasks[t].res[1])
                  /\ \E r \in RowsAt(db, tasks[t].semaine_id, tasks[t].age) :
                        r.alimentation_par_jour = TaskValue(t)
            /\ db.bandes[b] = pre.bandes[b]
                  - KgParSachet * (TaskDelta(1) + TaskDelta(2))

\* C19: one connection per operation.  An upsert never holds more than one
\* pooled connection and acquires no more than one over its run.
OneConnectionPerOperation ==
    \A t \in TaskIds : tasks[t].held <= 1 /\ tasks[t].acquired <= 1

\* under SpecPoolFair every started upsert returns, with a result or with
\* the pool's error: the waits of Pool::get() are bounded by its timeout
EveryOperationReturns == <>[](InFlight = 0)

\* C20: no indefinite blocking.  No reachable state has every connection of
\* the pool held by an upsert that is waiting for a further connection.
NoPoolExhaustedByWaiters ==
    ~ (/\ pool.idle = 0
       /\ pool.asking_nested + pool.asking_nested_again = PoolSize)


\* C21: period address space.  Every persisted semaine has numero_semaine in
\* 1..8, no two semaines of a batiment share a numero_semaine, and so a
\* batiment never has more than 8 semaines, whatever create_semaine,
\* update_semaine and get_full_semaines_by_batiment calls were made.
PeriodAddressSpace ==
    /\ \A s \in db.semaines : s.numero_semaine \in 1..NbSemaines
    /\ \A s, t \in db.semaines :
          (s.batiment_id = t.batiment_id
              /\ s.numero_semaine = t.numero_semaine) => s.id = t.id
    /\ \A b \in DOMAIN db.batiments :
          Cardinality({s \in db.semaines : s.batiment_id = b}) <= NbSemaines

\* C28: null metric round trip.  After get_full_semaines_by_batiment created
\* the missing semaines of a batiment, and after update_semaine_poids(id, None)
\* succeeded, the semaine is stored with a null poids and later reads of the
\* batiment's semaines and of the semaine return it with poids absent.
NullMetricRoundTrip ==
    /\ (last.op = "get_full_semaines_by_batiment" /\ is_ok(last.res)) =>
          \A s \in db.semaines \ pre.semaines :
              /\ s.poids = SqlNull
              /\ is_ok(SemaineRepository_get_by_batiment(db, s.batiment_id))
              /\ SemaineRepository_get_by_id(db, s.id)
                    = Ok(Semaine(s.id, s.batiment_id, s.numero_semaine, None))
    /\ (last.op = "update_semaine_poids" /\ is_ok(last.res)
            /\ last.args.poids = None) =>
          /\ semaine_row(db, last.args.semaine_id).poids = SqlNull
          /\ is_ok(SemaineRepository_get_by_id(db, last.args.semaine_id))
          /\ SemaineRepository_get_by_id(db, last.args.semaine_id).val.poids
                = None


\* C22: day address space.  Every persisted suivi_quotidien under a semaine
\* numbered n has its age in (n-1)*7+1 .. n*7, so a semaine owns at most 7
\* suivis, and an upsert whose age lies outside that range persists no row.
DayAddressSpace ==
    /\ \A s \in db.suivi_quotidien :
          LET n == semaine_row(db, s.semaine_id).numero_semaine
          IN  s.age \in start_age(n)..(n * JoursParSemaine)
    /\ \A w \in db.semaines :
          Cardinality({s \in db.suivi_quotidien : s.semaine_id = w.id})
              <= JoursParSemaine
    /\ (IsUpsert /\ semaine_exists(pre, last.args.semaine_id)) =>
          LET n == semaine_row(pre, last.args.semaine_id).numero_semaine
          IN  last.args.age \notin start_age(n)..(n * JoursParSemaine)
                  => db.suivi_quotidien = pre.suivi_quotidien

\* the insert that C23 is about: a parent that does not exist, or a natural
\* key that is already present
GuardedInsert ==
    LET IsCreateSemaine == last.op = "create_semaine"
        IsCreateSuivi == last.op = "create_suivi_quotidien"
    IN  \/ IsCreateSemaine /\ last.args.batiment_id \notin DOMAIN pre.batiments
        \/ IsCreateSemaine
              /\ \E s \in pre.semaines :
                    /\ s.batiment_id = last.args.batiment_id
                    /\ s.numero_semaine = last.args.numero_semaine
        \/ IsCreateSuivi /\ ~ semaine_exists(pre, last.args.semaine_id)
        \/ IsCreateSuivi
              /\ RowsAt(pre, last.args.semaine_id, last.args.age) # {}

\* C23: insert guards.  Creating a semaine for a batiment that does not
\* exist or a suivi for a semaine that does not exist returns an error, and
\* so does creating a semaine at a present (batiment, numero_semaine) or a
\* suivi at a present (semaine, age); in each case the store is unchanged.
InsertGuards == GuardedInsert => (~ is_ok(last.res) /\ db = pre)

\* a suivi refused by the store at an occupied (semaine, age), under a
\* semaine made by create_semaine
InsertGuardsWitness ==
    /\ last.op = "create_suivi_quotidien"
    /\ RowsAt(pre, last.args.semaine_id, last.args.age) # {}
    /\ last.res = Err("database", "constraint")
    /\ Cardinality(db.semaines) = 1


\* what belongs to bande c in database d: its batiments, their semaines,
\* suivis and maladie links, and its alimentation history
RowsOfBande(d, c) ==
    LET units == {b \in DOMAIN d.batiments : d.batiments[b] = c}
        semaines == {s \in d.semaines : s.batiment_id \in units}
    IN  [batiments |-> units,
         semaines |-> semaines,
         suivi_quotidien |-> {s \in d.suivi_quotidien :
                                \E w \in semaines : w.id = s.semaine_id},
         batiment_maladies |-> {l \in d.batiment_maladies : l[1] \in units},
         alimentation_history |-> {h \in d.alimentation_history :
                                     h.bande_id = c}]

\* C24: cycle delete cascade.  After a successful delete of a bande no
\* batiment, semaine, suivi, maladie link or history row of it remains and
\* the bande is gone, while every other bande keeps its rows and its ledger;
\* deleting a bande that does not exist returns NotFound and changes nothing.
BandeDeleteCascade ==
    LET EmptyRows ==
            [batiments |-> {}, semaines |-> {}, suivi_quotidien |-> {},
             batiment_maladies |-> {}, alimentation_history |-> {}]
    IN
    last.op = "delete_bande" =>
        IF last.args.id \in DOMAIN pre.bandes
        THEN /\ is_ok(last.res)
             /\ last.args.id \notin DOMAIN db.bandes
             /\ \A c \in {1, 2, 3} :
                   RowsOfBande(db, c) =
                       IF c = last.args.id THEN EmptyRows
                       ELSE RowsOfBande(pre, c)
             /\ \A c \in DOMAIN pre.bandes \ {last.args.id} :
                   c \in DOMAIN db.bandes /\ db.bandes[c] = pre.bandes[c]
             /\ db.semaines \subseteq pre.semaines
             /\ db.suivi_quotidien \subseteq pre.suivi_quotidien
        ELSE last.res = Err("not_found", last.args.id) /\ db = pre

\* a bande deleted with a grid, a consumption and a history row under it
BandeDeleteCascadeWitness ==
    /\ last.op = "delete_bande" /\ is_ok(last.res)
    /\ RowsOfBande(pre, last.args.id).suivi_quotidien # {}
    /\ RowsOfBande(pre, last.args.id).alimentation_history # {}

\* C27: bulk delete short-circuit.  delete_by_bande(c) removes every history
\* row of bande c and sets its alimentation_contour to exactly 0, whatever
\* it was and whatever consumption its suivis hold; the history rows and the
\* ledger of the other bandes, and every other table, are unchanged.
BulkDeleteShortCircuit ==
    last.op = "delete_by_bande" =>
        LET c == last.args.bande_id
        IN  /\ is_ok(last.res)
            /\ RowsOfBande(db, c).alimentation_history = {}
            /\ c \in DOMAIN db.bandes => db.bandes[c] = 0
            /\ db.alimentation_history =
                   {h \in pre.alimentation_history : h.bande_id # c}
            /\ DOMAIN db.bandes = DOMAIN pre.bandes
            /\ \A b \in DOMAIN pre.bandes \ {c} : db.bandes[b] = pre.bandes[b]
            /\ db.suivi_quotidien = pre.suivi_quotidien
            /\ db.semaines = pre.semaines

\* a bande with history and with consumption on its suivis, its ledger not
\* at 0, emptied of its history
BulkDeleteShortCircuitWitness ==
    /\ last.op = "delete_by_bande"
    /\ RowsOfBande(pre, last.args.bande_id).alimentation_history # {}
    /\ \E s \in RowsOfBande(pre, last.args.bande_id).suivi_quotidien :
          s.alimentation_par_jour # None
    /\ pre.bandes[last.args.bande_id] # 0
    /\ db.bandes[last.args.bande_id] = 0


\* the value of the named field at the addressed (semaine, age) in d, None
\* when the address has no row
FieldAt(d) ==
    LET rows == RowsAt(d, last.args.semaine_id, last.args.age)
    IN  IF rows = {} THEN None ELSE (CHOOSE s \in rows : TRUE)[last.args.field]

\* C25: empty string clears.  An accepted upsert with the empty string
\* succeeds and leaves the named field null at the address; on
\* alimentation_par_jour over a stored value v the owning bande's
\* alimentation_contour rises by 50 * v, and on an address without a row a
\* row with null consumption is inserted and the ledger does not move.
EmptyStringClears ==
    (UpsertAccepted /\ is_empty(last.args.value)) =>
        /\ is_ok(last.res)
        /\ RowsAt(db, last.args.semaine_id, last.args.age) # {}
        /\ FieldAt(db) = None
        /\ db.bandes =
              IF last.args.field = "alimentation_par_jour"
              THEN [pre.bandes EXCEPT
                      ![OwningBande(pre, last.args.semaine_id)] =
                          @ + KgParSachet * StoredConsumption(pre,
                                  last.args.semaine_id, last.args.age)]
              ELSE pre.bandes

\* a stored consumption cleared, the ledger moved back
EmptyStringClearsWitness ==
    /\ UpsertAccepted /\ is_empty(last.args.value)
    /\ last.args.field = "alimentation_par_jour"
    /\ StoredConsumption(pre, last.args.semaine_id, last.args.age) > 0
    /\ db.bandes # pre.bandes

\* C26: unparsable numeric input.  An accepted upsert of deces_par_jour or
\* alimentation_par_jour with a non-empty value that does not parse leaves
\* the field at the value it had before the call and the ledger unchanged.
UnparsableDropped ==
    (UpsertAccepted
        /\ last.args.field \in {"deces_par_jour", "alimentation_par_jour"}
        /\ ~ is_empty(last.args.value) /\ parse(last.args.value) = None) =>
        /\ FieldAt(db) = FieldAt(pre)
        /\ db.bandes = pre.bandes

\* C29: upsert frame.  A successful upsert changes, in the store, only the
\* named field of the row at the address (a new row has every other field
\* null) and, for alimentation_par_jour only, the alimentation_contour of
\* the owning bande; an upsert naming an unknown field returns an error and
\* changes nothing.
UpsertFrame ==
    /\ (IsUpsert /\ is_ok(last.res)) =>
          LET before == RowsAt(pre, last.args.semaine_id, last.args.age)
              after == RowsAt(db, last.args.semaine_id, last.args.age)
          IN  /\ [db EXCEPT !.suivi_quotidien = {}, !.bandes = <<>>,
                            !.seq = <<>>]
                 = [pre EXCEPT !.suivi_quotidien = {}, !.bandes = <<>>,
                               !.seq = <<>>]
              /\ db.suivi_quotidien \ after = pre.suivi_quotidien \ before
              /\ Cardinality(after) = 1
              /\ \A t \in after :
                    /\ \A s \in before :
                          t = [s EXCEPT ![last.args.field] = t[last.args.field]]
                    /\ before = {} =>
                          \A f \in FieldNames \ {last.args.field} : t[f] = None
              /\ \A b \in DOMAIN pre.bandes :
                    (last.args.field # "alimentation_par_jour"
                        \/ b # OwningBande(pre, last.args.semaine_id))
                    => db.bandes[b] = pre.bandes[b]
    /\ (IsUpsert /\ last.args.field \notin FieldNames) =>
          (~ is_ok(last.res) /\ db = pre)

\* a field written on a row that already holds a consumption, and the
\* ledger of the owning bande away from the other's
UpsertFrameWitness ==
    /\ IsUpsert /\ is_ok(last.res)
    /\ last.args.field = "remarques" /\ ~ is_empty(last.args.value)
    /\ StoredConsumption(pre, last.args.semaine_id, last.args.age) > 0
    /\ db # pre


\* C30: session token lifetime.  Once login_user or register_user returned
\* token t for user u, verify_token(t) returns u's public profile, until
\* logout_user(t); after logout_user(t), verify_token(t) returns None.
TokenLifetime ==
    /\ (last.op \in {"login_user", "register_user"} /\ is_ok(last.res)) =>
          verify_token(db, last.res.val.token).res
              = Ok(Some(last.res.val.user))
    /\ last.op = "logout_user" =>
          verify_token(db, last.args.token).res = Ok(None)

====
